---- MODULE Spec2Model ----
(***************************************************************************)
(* Model of src/union.py: the PathOperations extension.  One run of        *)
(* effect() on a host selection: validation of the selection, dispatch on  *)
(* the operation option, union_paths / intersect_paths, and the commit     *)
(* that deletes the inputs and appends the result to the current layer.    *)
(***************************************************************************)
EXTENDS Integers, Sequences, FiniteSets, TLC

\* Largest number of objects in the host selection.
MaxSel == 3

----------------------------------------------------------------------------
(* Path data.  A path-data string is a sequence of tokens; a token is a    *)
(* drawing command with a coordinate or a separator that carries no        *)
(* command.  Path(...) keeps the commands, str(Path) joins them again.     *)

Cmd(op, x) == [op |-> op, x |-> x]
WS == [op |-> " ", x |-> 0]

IsCommand(tok) == tok.op \in {"M", "L"}

\* inkex.paths.Path(path_data): the parsed command sequence
Path(path_data) == SelectSeq(path_data, IsCommand)

\* str(Path), as stored by PathElement.set('d', path)
RECURSIVE PathToString(_)
PathToString(path) ==
    IF Len(path) <= 1 THEN path
    ELSE <<Head(path), WS>> \o PathToString(Tail(path))

\* p.composed_transform(): absent, or a translation by dx (0 is the identity)
NoTransform == [present |-> FALSE, dx |-> 0]
Identity == [present |-> TRUE, dx |-> 0]
Shift == [present |-> TRUE, dx |-> 1]

\* Path.transform(transform): every command's coordinate mapped
RECURSIVE PathTransform(_, _)
PathTransform(path, transform) ==
    IF Len(path) = 0 THEN <<>>
    ELSE <<[Head(path) EXCEPT !.x = @ + transform.dx]>>
             \o PathTransform(Tail(path), transform)

\* `if path_data:` -- None and the empty string are both falsy
PathDataTruthy(p) == p.has_d /\ Len(p.d) > 0

\* `if transform is not None:` (union, and the later inputs of intersect)
TransformIsNotNone(transform) == transform.present

\* `if transform:` (first input of intersect) -- the identity is falsy
TransformTruthy(transform) == transform.present /\ transform.dx # 0

\* `if first_path:` -- the truth value of a document element (an lxml element)
\* is whether it has child nodes
ElementTruthy(p) == p.children

\* every selected object is taken for a path
AnyObjectIsPath(obj) == TRUE

\* `isinstance(obj, inkex.PathElement)`
IsPathElement(obj) == obj.isPath

----------------------------------------------------------------------------
(* Style mappings.                                                         *)

StyleProps == {"fill", "stroke"}
EmptyStyle == [k \in StyleProps |-> ""]
Red == [fill |-> "red", stroke |-> ""]
Blue == [fill |-> "blue", stroke |-> "black"]
Green == [fill |-> "", stroke |-> "green"]

\* style.update(other): the properties other sets override
StyleUpdate(style, other) ==
    [k \in StyleProps |-> IF other[k] # "" THEN other[k] ELSE style[k]]

----------------------------------------------------------------------------
(* The objects a selection is drawn from.                                  *)

Obj(isPath, has_d, d, transform, style, children) ==
    [isPath |-> isPath, has_d |-> has_d, d |-> d, transform |-> transform,
     style |-> style, children |-> children]

SampleObjects ==
    { Obj(FALSE, FALSE, <<>>, Identity, Red, FALSE),                 \* a non-path object
      Obj(TRUE, FALSE, <<>>, Identity, Red, FALSE),                  \* path, no d attribute
      Obj(TRUE, TRUE, <<>>, NoTransform, Blue, FALSE),               \* path, d = ""
      Obj(TRUE, TRUE, <<WS>>, Identity, Green, FALSE),               \* path, d without commands
      Obj(TRUE, TRUE, <<Cmd("M", 0), Cmd("L", 1)>>, Identity, Red, FALSE),
      Obj(TRUE, TRUE, <<Cmd("M", 2), WS, Cmd("L", 3)>>, NoTransform, Blue, TRUE),
      Obj(TRUE, TRUE, <<Cmd("M", 0), Cmd("L", 1)>>, Shift, Green, FALSE),
      Obj(TRUE, TRUE, <<Cmd("L", 2)>>, Identity, Blue, TRUE),
      Obj(TRUE, TRUE, <<Cmd("M", 1), Cmd("L", 1)>>, Shift, Red, TRUE) }

Selections == UNION { [1..n -> SampleObjects] : n \in 0..MaxSel }

\* self.options: the operation attribute, when present
OptionValues ==
    { [has_operation |-> FALSE, operation |-> ""],
      [has_operation |-> TRUE, operation |-> "union"],
      [has_operation |-> TRUE, operation |-> "intersect"],
      [has_operation |-> TRUE, operation |-> "difference"] }

\* `self.options.operation if hasattr(self.options, 'operation') else 'union'`
ChosenOperation(opts) == IF opts.has_operation THEN opts.operation ELSE "union"

Msg(kind, id) == [kind |-> kind, id |-> id]

NoResult == [present |-> FALSE, d |-> <<>>, style |-> EmptyStyle]
NewPathElement(path, style) ==
    [present |-> TRUE, d |-> PathToString(path), style |-> style]

\* Path.intersect(other): library-defined; the region is empty, or one operand
\* lies within the other
IntersectResults(a, b) ==
    {<<>>} \cup (IF Len(a) > 0 /\ Len(b) > 0 THEN {a, b} ELSE {})

----------------------------------------------------------------------------
VARIABLES
    selection,         \* self.svg.selection: objects in host order, id = index
    options,           \* self.options
    pc,                \* position of the run
    i,                 \* index of the running loop
    selected_paths,    \* validated paths, as ids
    combined_path,     \* union_paths accumulator
    intersected_path,  \* intersect_paths running result
    first_path,        \* id of the path whose style is copied, 0 for None
    result_path,       \* what the operation returned
    document,          \* ids of the selected objects still in the document
    layer,             \* objects appended to the current layer
    msgs,              \* messages reported, in order
    dataRead,          \* ids whose 'd' has been read, in order
    dispatched         \* operation effect() dispatched to

vars == <<selection, options, pc, i, selected_paths, combined_path,
          intersected_path, first_path, result_path, document, layer, msgs,
          dataRead, dispatched>>

Init ==
    /\ selection \in Selections
    /\ options \in OptionValues
    /\ pc = "Idle"
    /\ i = 0
    /\ selected_paths = <<>>
    /\ combined_path = <<>>
    /\ intersected_path = <<>>
    /\ first_path = 0
    /\ result_path = NoResult
    /\ document = 1..Len(selection)
    /\ layer = <<>>
    /\ msgs = <<>>
    /\ dataRead = <<>>
    /\ dispatched = "none"

Report(kind, id) == Append(msgs, Msg(kind, id))

\* the operation returned None: effect() reports the generic failure
ReportFailed(kind, id) == Append(Report(kind, id), Msg("operation_failed", 0))

CurrentPath == selection[selected_paths[i]]

----------------------------------------------------------------------------
(* effect(): validation of the selection                                   *)

\* `if not selected_objects` / `if len(selected_objects) < 2`
TooFewObjects == Len(selection) = 0 \/ Len(selection) < 2

\* one path is let through
TooFewPathsOffByOne == Len(selected_paths) < 1

\* `if len(selected_paths) < 2`
TooFewPaths == Len(selected_paths) < 2

\* effect() is entered: the selection is read, selected_paths = []
Start ==
    /\ pc = "Idle"
    /\ pc' = "Validating"
    /\ i' = 0
    /\ selected_paths' = <<>>
    /\ UNCHANGED <<selection, options, combined_path, intersected_path,
                   first_path, result_path, document, layer, msgs, dataRead,
                   dispatched>>

AbortNoSelection ==
    /\ pc = "Validating"
    /\ i = 0
    /\ TooFewObjects
    /\ pc' = "Aborted"
    /\ msgs' = Report("abort_select_two", 0)
    /\ UNCHANGED <<selection, options, i, selected_paths, combined_path,
                   intersected_path, first_path, result_path, document,
                   layer, dataRead, dispatched>>

BeginValidation ==
    /\ pc = "Validating"
    /\ i = 0
    /\ ~TooFewObjects
    /\ i' = 1
    /\ UNCHANGED <<selection, options, pc, selected_paths, combined_path,
                   intersected_path, first_path, result_path, document,
                   layer, msgs, dataRead, dispatched>>

KeepPath ==
    /\ pc = "Validating"
    /\ i >= 1
    /\ i <= Len(selection)
    /\ IsPathElement(selection[i])
    /\ selected_paths' = Append(selected_paths, i)
    /\ i' = i + 1
    /\ UNCHANGED <<selection, options, pc, combined_path, intersected_path,
                   first_path, result_path, document, layer, msgs, dataRead,
                   dispatched>>

IgnoreNonPath ==
    /\ pc = "Validating"
    /\ i >= 1
    /\ i <= Len(selection)
    /\ ~IsPathElement(selection[i])
    /\ msgs' = Report("not_a_path", i)
    /\ i' = i + 1
    /\ UNCHANGED <<selection, options, pc, selected_paths, combined_path,
                   intersected_path, first_path, result_path, document,
                   layer, dataRead, dispatched>>

AbortTooFewPaths ==
    /\ pc = "Validating"
    /\ i > Len(selection)
    /\ TooFewPaths
    /\ pc' = "Aborted"
    /\ msgs' = Report("abort_two_paths", 0)
    /\ UNCHANGED <<selection, options, i, selected_paths, combined_path,
                   intersected_path, first_path, result_path, document,
                   layer, dataRead, dispatched>>

ValidationDone ==
    /\ pc = "Validating"
    /\ i > Len(selection)
    /\ ~TooFewPaths
    /\ pc' = "Dispatching"
    /\ UNCHANGED <<selection, options, i, selected_paths, combined_path,
                   intersected_path, first_path, result_path, document,
                   layer, msgs, dataRead, dispatched>>

----------------------------------------------------------------------------
(* effect(): dispatch on the operation option                              *)

DispatchUnion ==
    /\ pc = "Dispatching"
    /\ ChosenOperation(options) = "union"
    /\ pc' = "Unioning"
    /\ dispatched' = "union"
    /\ i' = 1
    /\ combined_path' = <<>>
    /\ first_path' = 0
    /\ UNCHANGED <<selection, options, selected_paths, intersected_path,
                   result_path, document, layer, msgs, dataRead>>

DispatchIntersect ==
    /\ pc = "Dispatching"
    /\ ChosenOperation(options) = "intersect"
    /\ pc' = "Intersecting"
    /\ dispatched' = "intersect"
    /\ i' = 1
    /\ intersected_path' = <<>>
    /\ first_path' = 0
    /\ UNCHANGED <<selection, options, selected_paths, combined_path,
                   result_path, document, layer, msgs, dataRead>>

\* any other value is taken for union
DispatchUnknownAsUnion ==
    /\ pc = "Dispatching"
    /\ ChosenOperation(options) \notin {"union", "intersect"}
    /\ pc' = "Unioning"
    /\ dispatched' = "union"
    /\ i' = 1
    /\ combined_path' = <<>>
    /\ first_path' = 0
    /\ UNCHANGED <<selection, options, selected_paths, intersected_path,
                   result_path, document, layer, msgs, dataRead>>

DispatchUnknown ==
    /\ pc = "Dispatching"
    /\ ChosenOperation(options) \notin {"union", "intersect"}
    /\ pc' = "Failed"
    /\ dispatched' = "unknown"
    /\ msgs' = Report("unknown_operation", 0)
    /\ UNCHANGED <<selection, options, i, selected_paths, combined_path,
                   intersected_path, first_path, result_path, document,
                   layer, dataRead>>

----------------------------------------------------------------------------
(* union_paths                                                             *)

\* the geometry one input contributes to the accumulator
UnionGeometry(p) ==
    IF TransformIsNotNone(p.transform)
    THEN PathTransform(Path(p.d), p.transform)
    ELSE Path(p.d)

\* the new commands are put in front
PathPrepend(path, other) == other \o path

\* combined_path.append(path): the commands are appended in order
PathAppend(path, other) == path \o other

UnionAppend ==
    /\ pc = "Unioning"
    /\ i <= Len(selected_paths)
    /\ PathDataTruthy(CurrentPath)
    /\ dataRead' = Append(dataRead, selected_paths[i])
    /\ combined_path' = PathAppend(combined_path, UnionGeometry(CurrentPath))
    /\ first_path' = IF i = 1 THEN selected_paths[i] ELSE first_path
    /\ i' = i + 1
    /\ UNCHANGED <<selection, options, pc, selected_paths, intersected_path,
                   result_path, document, layer, msgs, dispatched>>

\* the input without data is skipped and the loop goes on
UnionNoDataSkips ==
    /\ pc = "Unioning"
    /\ i <= Len(selected_paths)
    /\ ~PathDataTruthy(CurrentPath)
    /\ dataRead' = Append(dataRead, selected_paths[i])
    /\ msgs' = Report("no_path_data", selected_paths[i])
    /\ i' = i + 1
    /\ UNCHANGED <<selection, options, pc, selected_paths, combined_path,
                   intersected_path, first_path, result_path, document,
                   layer, dispatched>>

UnionNoData ==
    /\ pc = "Unioning"
    /\ i <= Len(selected_paths)
    /\ ~PathDataTruthy(CurrentPath)
    /\ dataRead' = Append(dataRead, selected_paths[i])
    /\ msgs' = ReportFailed("no_path_data", selected_paths[i])
    /\ pc' = "Failed"
    /\ UNCHANGED <<selection, options, i, selected_paths, combined_path,
                   intersected_path, first_path, result_path, document,
                   layer, dispatched>>

\* the test is for None, which a Path never is
PathIsNone(path) == FALSE

\* `if not combined_path or len(combined_path) == 0`
PathIsEmpty(path) == Len(path) = 0

UnionReturnNone ==
    /\ pc = "Unioning"
    /\ i > Len(selected_paths)
    /\ PathIsEmpty(combined_path)
    /\ msgs' = Append(msgs, Msg("operation_failed", 0))
    /\ pc' = "Failed"
    /\ UNCHANGED <<selection, options, i, selected_paths, combined_path,
                   intersected_path, first_path, result_path, document,
                   layer, dataRead, dispatched>>

\* style of the new element after the guarded style.update(first_path.style)
CopiedStyle(guard) ==
    IF guard THEN StyleUpdate(EmptyStyle, selection[first_path].style)
    ELSE EmptyStyle

UnionReturnPath ==
    /\ pc = "Unioning"
    /\ i > Len(selected_paths)
    /\ ~PathIsEmpty(combined_path)
    /\ result_path' = NewPathElement(combined_path, CopiedStyle(first_path # 0))
    /\ pc' = "Committing"
    /\ i' = 1
    /\ UNCHANGED <<selection, options, selected_paths, combined_path,
                   intersected_path, first_path, document, layer, msgs,
                   dataRead, dispatched>>

----------------------------------------------------------------------------
(* intersect_paths                                                         *)

\* the first input's geometry: transformed under `if transform:`
FirstGeometry(p) ==
    IF TransformTruthy(p.transform)
    THEN PathTransform(Path(p.d), p.transform)
    ELSE Path(p.d)

\* a later input's geometry: transformed under `if transform is not None:`
LaterGeometry(p) ==
    IF TransformIsNotNone(p.transform)
    THEN PathTransform(Path(p.d), p.transform)
    ELSE Path(p.d)

\* `if not selected_paths` and `if len(selected_paths) < 2`, then the first input
IntersectFirst ==
    /\ pc = "Intersecting"
    /\ i = 1
    /\ IF Len(selected_paths) = 0
       THEN /\ msgs' = Append(msgs, Msg("operation_failed", 0))
            /\ pc' = "Failed"
            /\ UNCHANGED <<i, intersected_path, first_path, dataRead>>
       ELSE IF Len(selected_paths) < 2
       THEN /\ msgs' = ReportFailed("intersection_needs_two", 0)
            /\ pc' = "Failed"
            /\ UNCHANGED <<i, intersected_path, first_path, dataRead>>
       ELSE /\ PathDataTruthy(CurrentPath)
            /\ dataRead' = Append(dataRead, selected_paths[i])
            /\ intersected_path' = FirstGeometry(CurrentPath)
            /\ first_path' = selected_paths[i]
            /\ i' = 2
            /\ UNCHANGED <<pc, msgs>>
    /\ UNCHANGED <<selection, options, selected_paths, combined_path,
                   result_path, document, layer, dispatched>>

IntersectFirstNoData ==
    /\ pc = "Intersecting"
    /\ i = 1
    /\ Len(selected_paths) >= 2
    /\ ~PathDataTruthy(CurrentPath)
    /\ dataRead' = Append(dataRead, selected_paths[i])
    /\ msgs' = ReportFailed("no_path_data", selected_paths[i])
    /\ pc' = "Failed"
    /\ UNCHANGED <<selection, options, i, selected_paths, combined_path,
                   intersected_path, first_path, result_path, document,
                   layer, dispatched>>

\* the running result is combined with the next input and is not empty
IntersectStep ==
    /\ pc = "Intersecting"
    /\ i >= 2
    /\ i <= Len(selected_paths)
    /\ PathDataTruthy(CurrentPath)
    /\ \E r \in IntersectResults(intersected_path, LaterGeometry(CurrentPath)) :
          /\ ~PathIsEmpty(r)
          /\ intersected_path' = r
    /\ dataRead' = Append(dataRead, selected_paths[i])
    /\ i' = i + 1
    /\ UNCHANGED <<selection, options, pc, selected_paths, combined_path,
                   first_path, result_path, document, layer, msgs,
                   dispatched>>

\* `if not intersected_path:` after the combination
IntersectEmpty ==
    /\ pc = "Intersecting"
    /\ i >= 2
    /\ i <= Len(selected_paths)
    /\ PathDataTruthy(CurrentPath)
    /\ \E r \in IntersectResults(intersected_path, LaterGeometry(CurrentPath)) :
          /\ PathIsEmpty(r)
          /\ intersected_path' = r
    /\ dataRead' = Append(dataRead, selected_paths[i])
    /\ msgs' = ReportFailed("empty_intersection", 0)
    /\ pc' = "Failed"
    /\ UNCHANGED <<selection, options, i, selected_paths, combined_path,
                   first_path, result_path, document, layer, dispatched>>

\* the library call raises: `except Exception`
IntersectRaise ==
    /\ pc = "Intersecting"
    /\ i >= 2
    /\ i <= Len(selected_paths)
    /\ PathDataTruthy(CurrentPath)
    /\ dataRead' = Append(dataRead, selected_paths[i])
    /\ msgs' = ReportFailed("processing_error", selected_paths[i])
    /\ pc' = "Failed"
    /\ UNCHANGED <<selection, options, i, selected_paths, combined_path,
                   intersected_path, first_path, result_path, document,
                   layer, dispatched>>

\* the input without data is skipped and the loop goes on
IntersectNoDataSkips ==
    /\ pc = "Intersecting"
    /\ i >= 2
    /\ i <= Len(selected_paths)
    /\ ~PathDataTruthy(CurrentPath)
    /\ dataRead' = Append(dataRead, selected_paths[i])
    /\ msgs' = Report("no_path_data", selected_paths[i])
    /\ i' = i + 1
    /\ UNCHANGED <<selection, options, pc, selected_paths, combined_path,
                   intersected_path, first_path, result_path, document,
                   layer, dispatched>>

IntersectNoData ==
    /\ pc = "Intersecting"
    /\ i >= 2
    /\ i <= Len(selected_paths)
    /\ ~PathDataTruthy(CurrentPath)
    /\ dataRead' = Append(dataRead, selected_paths[i])
    /\ msgs' = ReportFailed("no_path_data", selected_paths[i])
    /\ pc' = "Failed"
    /\ UNCHANGED <<selection, options, i, selected_paths, combined_path,
                   intersected_path, first_path, result_path, document,
                   layer, dispatched>>

\* `if intersected_path and len(intersected_path) > 0`, else None
IntersectReturn ==
    /\ pc = "Intersecting"
    /\ i >= 2
    /\ i > Len(selected_paths)
    /\ IF ~PathIsEmpty(intersected_path)
       THEN /\ result_path' = NewPathElement(intersected_path,
                                 CopiedStyle(ElementTruthy(selection[first_path])))
            /\ pc' = "Committing"
            /\ i' = 1
            /\ UNCHANGED msgs
       ELSE /\ msgs' = Append(msgs, Msg("operation_failed", 0))
            /\ pc' = "Failed"
            /\ UNCHANGED <<i, result_path>>
    /\ UNCHANGED <<selection, options, selected_paths, combined_path,
                   intersected_path, first_path, document, layer, dataRead,
                   dispatched>>

----------------------------------------------------------------------------
(* effect(): the commit                                                    *)

\* `if result_path is not None`
ResultIsNotNone(r) == r.present

\* the loop starts one input late
DeleteInputSkipsFirst ==
    /\ pc = "Committing"
    /\ ResultIsNotNone(result_path)
    /\ i <= Len(selected_paths)
    /\ document' = (IF i = 1 THEN document ELSE document \ {selected_paths[i]})
    /\ i' = i + 1
    /\ UNCHANGED <<selection, options, pc, selected_paths, combined_path,
                   intersected_path, first_path, result_path, layer, msgs,
                   dataRead, dispatched>>

\* p.delete()
DeleteInput ==
    /\ pc = "Committing"
    /\ ResultIsNotNone(result_path)
    /\ i <= Len(selected_paths)
    /\ document' = document \ {selected_paths[i]}
    /\ i' = i + 1
    /\ UNCHANGED <<selection, options, pc, selected_paths, combined_path,
                   intersected_path, first_path, result_path, layer, msgs,
                   dataRead, dispatched>>

\* the insertion sits inside the deletion loop
AppendResultInsideLoop ==
    /\ pc = "Committing"
    /\ ResultIsNotNone(result_path)
    /\ i > 1
    /\ layer' = Append(layer, result_path)
    /\ pc' = "Committed"
    /\ UNCHANGED <<selection, options, i, selected_paths, combined_path,
                   intersected_path, first_path, result_path, document, msgs,
                   dataRead, dispatched>>

\* self.svg.get_current_layer().append(result_path)
AppendResult ==
    /\ pc = "Committing"
    /\ ResultIsNotNone(result_path)
    /\ i > Len(selected_paths)
    /\ layer' = Append(layer, result_path)
    /\ pc' = "Committed"
    /\ UNCHANGED <<selection, options, i, selected_paths, combined_path,
                   intersected_path, first_path, result_path, document, msgs,
                   dataRead, dispatched>>

----------------------------------------------------------------------------
Next ==
    \/ Start
    \/ AbortNoSelection
    \/ BeginValidation
    \/ KeepPath
    \/ IgnoreNonPath
    \/ AbortTooFewPaths
    \/ ValidationDone
    \/ DispatchUnion
    \/ DispatchIntersect
    \/ DispatchUnknown
    \/ UnionAppend
    \/ UnionNoData
    \/ UnionReturnNone
    \/ UnionReturnPath
    \/ IntersectFirst
    \/ IntersectFirstNoData
    \/ IntersectStep
    \/ IntersectEmpty
    \/ IntersectRaise
    \/ IntersectNoData
    \/ IntersectReturn
    \/ DeleteInput
    \/ AppendResult

Spec == Init /\ [][Next]_vars

\* effect() runs to its end: the script is sequential and every loop is over a
\* finite list
FairSpec == Spec /\ WF_vars(Next)

----------------------------------------------------------------------------
(* Properties                                                              *)

Terminal == {"Aborted", "Failed", "Committed"}
Ids == 1..Len(selection)
Range(seq) == {seq[k] : k \in DOMAIN seq}

\* ids of the path objects of the selection, in host selection order
RECURSIVE PathsUpTo(_)
PathsUpTo(n) ==
    IF n = 0 THEN <<>>
    ELSE IF selection[n].isPath THEN Append(PathsUpTo(n - 1), n)
    ELSE PathsUpTo(n - 1)
PathIds == PathsUpTo(Len(selection))
NonPathIds == {k \in Ids : ~selection[k].isPath}

Count(kind, id) == Cardinality({k \in DOMAIN msgs : msgs[k] = Msg(kind, id)})
Reported(kind) == \E k \in DOMAIN msgs : msgs[k].kind = kind

Unmutated == document = Ids /\ layer = <<>>
ValidationPassed == Len(selection) >= 2 /\ Len(PathIds) >= 2
Validated == pc \notin {"Idle", "Validating", "Aborted"}
HasData(k) == selection[k].has_d /\ selection[k].d # <<>>
MissingData == {k \in Range(PathIds) : ~HasData(k)}
IsPrefix(s, t) == Len(s) <= Len(t) /\ s = SubSeq(t, 1, Len(s))

\* position in the validated list of the first input without path data
FirstMissing ==
    CHOOSE k \in 1..Len(PathIds) :
        /\ ~HasData(PathIds[k])
        /\ \A j \in 1..(k - 1) : HasData(PathIds[j])

\* an input's command sequence with its composed transform applied
ExpectedGeometry(p) ==
    LET cmds == SelectSeq(p.d, LAMBDA tok : tok # WS)
    IN  [k \in 1..Len(cmds) |->
            Cmd(cmds[k].op,
                cmds[k].x + (IF p.transform.present THEN p.transform.dx ELSE 0))]

RECURSIVE ExpectedUnion(_)
ExpectedUnion(ids) ==
    IF ids = <<>> THEN <<>>
    ELSE ExpectedGeometry(selection[Head(ids)]) \o ExpectedUnion(Tail(ids))

RECURSIVE LiteralConcat(_)
LiteralConcat(ids) ==
    IF ids = <<>> THEN <<>>
    ELSE SelectSeq(selection[Head(ids)].d, LAMBDA tok : tok # WS)
             \o LiteralConcat(Tail(ids))

\* the command sequence of a result object's path data
Geometry(r) == SelectSeq(r.d, LAMBDA tok : tok # WS)

\* C1: at the end of effect either the result has been appended to the layer
\* exactly once and every validated input deleted, or nothing has been appended
\* and nothing deleted; an input is missing from the document only on success.
C1_AllOrNothing ==
    /\ Len(layer) <= 1
    /\ document # Ids => pc \in {"Committing", "Committed"} /\ result_path.present
    /\ pc \in Terminal =>
          \/ /\ pc = "Committed"
             /\ layer = <<result_path>>
             /\ result_path.present
             /\ document = Ids \ Range(PathIds)
          \/ /\ pc # "Committed"
             /\ Unmutated

C1_Witness ==
    /\ pc = "Committed"
    /\ Len(layer) = 1
    /\ Len(PathIds) = 2
    /\ document = NonPathIds
    /\ NonPathIds # {}

\* C2: with fewer than two selected objects, or fewer than two path objects
\* among them, effect aborts before any operation is dispatched and the
\* document is unchanged, whatever the operation option is.
C2_AbortsBeforeDispatch ==
    ~ValidationPassed =>
        /\ pc \in {"Idle", "Validating", "Aborted"}
        /\ dispatched = "none"
        /\ dataRead = <<>>
        /\ ~result_path.present
        /\ Unmutated
        /\ pc = "Aborted" => Reported(IF Len(selection) < 2
                                      THEN "abort_select_two"
                                      ELSE "abort_two_paths")

C2_Witness ==
    /\ pc = "Aborted"
    /\ Len(selection) = 3
    /\ Len(PathIds) = 1
    /\ options.operation = "intersect"

\* C3: after a valid selection, an operation option other than union or
\* intersect makes effect report the unknown operation and do nothing else;
\* an absent option is dispatched as union.
C3_UnknownOperationNoOp ==
    /\ (Validated /\ options.has_operation
           /\ options.operation \notin {"union", "intersect"}) =>
          /\ pc \in {"Dispatching", "Failed"}
          /\ ~result_path.present
          /\ dataRead = <<>>
          /\ Unmutated
          /\ ~Reported("operation_failed")
          /\ pc = "Failed" =>
                /\ dispatched = "unknown"
                /\ Count("unknown_operation", 0) = 1
                /\ msgs[Len(msgs)] = Msg("unknown_operation", 0)
    /\ (~options.has_operation /\ Validated /\ pc # "Dispatching") =>
          dispatched = "union"

C3_Witness ==
    /\ pc = "Failed"
    /\ options.operation = "difference"
    /\ Len(PathIds) = 3
    /\ Reported("unknown_operation")

\* C4: each non-path object of a selection with at least two paths is
\* reported once and ignored: it is never deleted, never read, and the
\* operation works on exactly the path objects, in selection order.
C4_NonPathsIgnored ==
    /\ NonPathIds \subseteq document
    /\ IsPrefix(dataRead, PathIds)
    /\ (Validated /\ Len(PathIds) >= 2) =>
          /\ selected_paths = PathIds
          /\ \A k \in NonPathIds : Count("not_a_path", k) = 1
          /\ \A k \in Range(PathIds) : Count("not_a_path", k) = 0
    /\ pc = "Committed" => document = NonPathIds

C4_Witness ==
    /\ pc = "Committed"
    /\ selection[2].isPath = FALSE
    /\ Len(PathIds) = 2
    /\ Len(selection) = 3
    /\ dataRead = <<1, 3>>

UnionReturned ==
    /\ dispatched = "union"
    /\ pc \in {"Committing", "Committed", "Failed"}
    /\ MissingData = {}

C6_StyleOfFirstPath ==
    result_path.present => result_path.style = selection[PathIds[1]].style

C9_IntersectShortCircuits ==
    dispatched = "intersect" =>
        /\ IsPrefix(dataRead, PathIds)
        /\ (pc = "Intersecting" /\ i = 2) =>
              intersected_path = ExpectedGeometry(selection[PathIds[1]])
        /\ (pc = "Intersecting" /\ i > 2) => intersected_path # <<>>
        /\ pc \in {"Committing", "Committed"} => Geometry(result_path) # <<>>
        /\ Reported("empty_intersection") =>
              /\ pc = "Failed"
              /\ Count("empty_intersection", 0) = 1
              /\ intersected_path = <<>>
              /\ i >= 2
              /\ dataRead = SubSeq(PathIds, 1, i)
              /\ ~result_path.present
              /\ Unmutated

C9_Witness ==
    /\ Reported("empty_intersection")
    /\ Len(PathIds) = 3
    /\ dataRead = <<1, 2>>
    /\ selection[1].transform = Shift
    /\ \A k \in Ids : HasData(k)

ClaimedEdges ==
    { <<"Idle", "Validating">>,
      <<"Validating", "Aborted">>, <<"Validating", "Dispatching">>,
      <<"Dispatching", "Unioning">>, <<"Dispatching", "Intersecting">>,
      <<"Unioning", "Committing">>, <<"Unioning", "Failed">>,
      <<"Intersecting", "Committing">>, <<"Intersecting", "Failed">>,
      <<"Committing", "Committed">> }

\* C10 as stated: every run moves along Idle -> Validating ->
\* {Aborted | Dispatching} -> {Unioning | Intersecting} ->
\* {Committing | Failed}, Committing ending in Committed.
C10_ClaimedStateMachine ==
    [][pc' # pc => <<pc, pc'>> \in ClaimedEdges]_vars

\* C10, amended: the run moves along those edges or, for an unrecognised
\* operation, from Dispatching straight to Failed; it ends in exactly one of
\* Aborted, Failed, Committed and stays there; Unioning and Intersecting are
\* entered only with a validated selection, Committing only with a result, and
\* in Committing every input is deleted before the one insertion.
C10_StateMachine ==
    /\ [][pc' # pc =>
            \/ <<pc, pc'>> \in ClaimedEdges
            \/ /\ <<pc, pc'>> = <<"Dispatching", "Failed">>
               /\ dispatched' = "unknown"]_vars
    /\ <>(pc \in Terminal)
    /\ [][(pc \in Terminal) => (pc' = pc)]_vars
    /\ [](pc \in {"Unioning", "Intersecting"} =>
            ValidationPassed /\ selected_paths = PathIds)
    /\ [](pc = "Committing" => result_path.present /\ layer = <<>>)
    /\ [][document' # document => layer = <<>> /\ layer' = <<>>]_vars
    /\ [][layer' # layer =>
            /\ document = NonPathIds
            /\ document' = document
            /\ layer' = <<result_path>>
            /\ pc' = "Committed"]_vars

C10_Witness ==
    /\ pc = "Committed"
    /\ dispatched = "intersect"
    /\ Len(PathIds) = 3
    /\ Len(selection) = 3

====
